---- MODULE Spec2Model ----
(***************************************************************************)
(* The api-server of go-and-compose: the entry point (main.go), the server *)
(* wrapper (apiserver/apiserver.go, apiserver/items.go) and the storage    *)
(* accessor (storage/storage.go, storage/items.go) as one state machine.   *)
(*                                                                         *)
(* Goroutines: main (apiServerCmd's Action, then APIServer.Start), the     *)
(* signal goroutine (main.go 49-52), the listener goroutine (Start's       *)
(* go func) and one handler goroutine per accepted request.                *)
(***************************************************************************)
EXTENDS Integers, Sequences, FiniteSets, TLC

\* ------------------------------------------------------------------ bounds
MaxSignals == 2
MaxReq == 2

\* ------------------------------------------------------- program constants
\* var defaultStopTimeout = time.Second * 30, in seconds
defaultStopTimeout == 30
\* the model's clock advances in steps of half the timeout
TickSeconds == defaultStopTimeout \div 2

StatusOK == 200
StatusCreated == 201
StatusInternalServerError == 500

Nil == "nil"
ErrAddrBlank == "addr cannot be blank"
ErrOpenSql == "could not initialize storage: could not open sql"
ErrInsert == "pq: insert failed"
ErrQuery == "could not retrieve items"
ErrScan == "could not scan item"
ErrWrite == "write: broken pipe"
DeadlineExceeded == "context deadline exceeded"

\* the values the flags --addr / --database-url (or their environment
\* variables) can carry: unset (""), or set
Addrs == {"", ":3000"}
ValidDatabaseURL == "postgres://user@db/app?sslmode=disable"
DatabaseURLs == {ValidDatabaseURL, "postgres://%zz"}

VARIABLES
  addr,          \* c.String("addr")
  databaseURL,   \* c.String("database-url")
  portFree,      \* environment: whether net.Listen on addr can succeed
  pcMain,        \* position of the main goroutine
  storage,       \* s: "nil" or "conn"
  server,        \* server: "nil" or the APIServer's addr
  cmdErr,        \* the error the Action returns to main
  startRet,      \* "none" until Start returns, then its error
  proc,          \* "running" or "exited"
  exitCode,      \* -1 while running
  done,          \* number of signals buffered in done (capacity 1)
  signals,       \* signals delivered so far
  sigPc,         \* signal goroutine: "recv", "close", "exit"
  stopper,       \* "open" or "closed"
  closeCount,    \* number of close(stopper) executed
  panicked,      \* a goroutine panicked (close of closed channel)
  lsnPc,         \* listener goroutine: "notStarted", "spawned", "serving", "returned"
  inShutdown,    \* http.Server.inShutdown
  elapsed,       \* seconds since Shutdown's context was created
  items,         \* the rows of table items, in heap order
  cursors,       \* server-side cursors (sql.Rows) open and not closed
  req,           \* the connections/requests, by slot
  atStop         \* the requests in flight when stopper was closed

vars == <<addr, databaseURL, portFree, pcMain, storage, server, cmdErr,
          startRet, proc, exitCode, done, signals, sigPc, stopper,
          closeCount, panicked, lsnPc, inShutdown, elapsed, items, cursors,
          req, atStop>>

cfgVars == <<addr, databaseURL, portFree>>
mainVars == <<pcMain, storage, server, cmdErr, startRet>>
sigVars == <<done, signals, sigPc, stopper, closeCount, panicked, atStop>>
srvVars == <<lsnPc, inShutdown, elapsed>>
dbVars == <<items, cursors>>

Reqs == 1..MaxReq
Routes == {"GET /", "POST /items", "GET /items"}

\* the values of form field name a POST /items can carry: <<>> is a request
\* without the field
Forms == {<<>>, <<"widget">>}

\* http.ResponseWriter as the handlers see it: the status line sent (0: none
\* yet) and the body bytes the connection took
NewResponseWriter == [wroteHeader |-> FALSE, status |-> 0, body |-> ""]

\* storage.Item; NoItem is the nil *Item
NoItem == [ID |-> "", Name |-> ""]

\* a storage call that the database answers without failing
NoFault == [kind |-> "none", at |-> 0]

\* what a storage call returned to its handler, and the kind of fault it met
NoResult == [item |-> NoItem, items |-> <<>>, err |-> Nil, fault |-> "none"]

\* st: "none" (slot unused), "running" (accepted, handler not yet returned),
\* "done" (handler returned, response finished), "aborted" (connection
\* closed under the handler); res is what the handler's storage call
\* returned, herr what the handler returned, w the response
NoReq == [st |-> "none", route |-> "", form |-> <<>>, res |-> NoResult,
          herr |-> Nil, w |-> NewResponseWriter]

\* a connection whose request is being served (not idle)
Active(r) == req[r].st = "running"
ActiveReqs == {r \in Reqs : Active(r)}

\* ------------------------------------------------------------ constructors
\* storage.NewStorage: sql.Open only validates the data source name
NewStorage(url) ==
  IF url \in {ValidDatabaseURL}
    THEN [s |-> "conn", err |-> Nil]
    ELSE [s |-> "nil", err |-> ErrOpenSql]

\* NewAPIServer without its check of addr
NewAPIServerUnchecked(a, s) == [server |-> a, err |-> Nil]

\* apiserver.NewAPIServer
NewAPIServer(a, s) ==
  IF a = ""
    THEN [server |-> "nil", err |-> ErrAddrBlank]
    ELSE [server |-> a, err |-> Nil]

\* ------------------------------------------------------------ process exit
\* os.Exit: every goroutine ends and the kernel closes every socket
ExitReqs(rq) ==
  [r \in Reqs |-> IF rq[r].st = "running" THEN [rq[r] EXCEPT !.st = "aborted"] ELSE rq[r]]

Exit(code) ==
  /\ proc' = "exited"
  /\ exitCode' = code
  /\ req' = ExitReqs(req)

Init ==
  /\ addr \in Addrs
  /\ databaseURL \in DatabaseURLs
  /\ portFree \in BOOLEAN
  /\ pcMain = "NewStorage"
  /\ storage = "nil"
  /\ server = "nil"
  /\ cmdErr = Nil
  /\ startRet = "none"
  /\ proc = "running"
  /\ exitCode = -1
  /\ done = 0
  /\ signals = 0
  /\ sigPc = "recv"
  /\ stopper = "open"
  /\ closeCount = 0
  /\ panicked = FALSE
  /\ lsnPc = "notStarted"
  /\ inShutdown = FALSE
  /\ elapsed = 0
  /\ items = <<>>
  /\ cursors = 0
  /\ req = [r \in Reqs |-> NoReq]
  /\ atStop = {}

\* ------------------------------------------------------------ main.go 45-52
\* signal.Notify registered only after the constructors: a signal delivered
\* before that is not put in done
SignalLateNotify ==
  /\ proc = "running"
  /\ signals < MaxSignals
  /\ signals' = signals + 1
  /\ done' = IF pcMain \in {"NewStorage", "NewAPIServer"} \/ done >= 1
               THEN done ELSE done + 1
  /\ UNCHANGED <<cfgVars, dbVars, mainVars, srvVars, proc, exitCode, sigPc, stopper,
                 closeCount, panicked, req, atStop>>

\* the OS delivers SIGINT/SIGTERM; signal.Notify's send never blocks: a
\* signal that finds done full is dropped
Signal ==
  /\ proc = "running"
  /\ signals < MaxSignals
  /\ signals' = signals + 1
  /\ done' = IF done < 1 THEN done + 1 ELSE done
  /\ UNCHANGED <<cfgVars, dbVars, mainVars, srvVars, proc, exitCode, sigPc, stopper,
                 closeCount, panicked, req, atStop>>

\* <-done
SigRecv ==
  /\ proc = "running"
  /\ sigPc = "recv"
  /\ done > 0
  /\ done' = done - 1
  /\ sigPc' = "close"
  /\ UNCHANGED <<cfgVars, dbVars, mainVars, srvVars, proc, exitCode, signals, stopper,
                 closeCount, panicked, req, atStop>>

\* the signal goroutine as a loop, for { <-done; close(stopper) }: the second
\* signal closes a closed channel, which panics
SigCloseLoops ==
  /\ proc = "running"
  /\ sigPc = "close"
  /\ closeCount' = closeCount + 1
  /\ sigPc' = "recv"
  /\ IF stopper = "closed"
       THEN /\ panicked' = TRUE
            /\ Exit(2)
            /\ UNCHANGED <<stopper, atStop>>
       ELSE /\ stopper' = "closed"
            /\ atStop' = ActiveReqs
            /\ UNCHANGED <<panicked, proc, exitCode, req>>
  /\ UNCHANGED <<cfgVars, dbVars, mainVars, srvVars, done, signals>>

\* close(stopper), then the goroutine ends; close of a closed channel panics
SigClose ==
  /\ proc = "running"
  /\ sigPc = "close"
  /\ closeCount' = closeCount + 1
  /\ sigPc' = "exit"
  /\ IF stopper = "closed"
       THEN /\ panicked' = TRUE
            /\ Exit(2)
            /\ UNCHANGED <<stopper, atStop>>
       ELSE /\ stopper' = "closed"
            /\ atStop' = ActiveReqs
            /\ UNCHANGED <<panicked, proc, exitCode, req>>
  /\ UNCHANGED <<cfgVars, dbVars, mainVars, srvVars, done, signals>>

\* ----------------------------------------------------------- main.go 54-66
\* s, err := storage.NewStorage(databaserURL)
MainNewStorage ==
  /\ proc = "running"
  /\ pcMain = "NewStorage"
  /\ LET r == NewStorage(databaseURL) IN
       /\ storage' = r.s
       /\ IF r.err # Nil
            THEN /\ cmdErr' = r.err
                 /\ pcMain' = "main"
            ELSE /\ pcMain' = "NewAPIServer"
                 /\ UNCHANGED cmdErr
  /\ UNCHANGED <<cfgVars, dbVars, sigVars, srvVars, server, startRet, proc, exitCode, req>>

\* server, err := apiserver.NewAPIServer(addr, s)
MainNewAPIServer ==
  /\ proc = "running"
  /\ pcMain = "NewAPIServer"
  /\ LET r == NewAPIServer(addr, storage) IN
       /\ server' = r.server
       /\ IF r.err # Nil
            THEN /\ cmdErr' = r.err
                 /\ pcMain' = "main"
            ELSE /\ pcMain' = "Start"
                 /\ UNCHANGED cmdErr
  /\ UNCHANGED <<cfgVars, dbVars, sigVars, srvVars, storage, startRet, proc, exitCode, req>>

\* --------------------------------------------------------- APIServer.Start
\* srv := &http.Server{...}; go func() { ... }(); then block on <-stop
StartSpawn ==
  /\ proc = "running"
  /\ pcMain = "Start"
  /\ pcMain' = "waitStop"
  /\ lsnPc' = "spawned"
  /\ UNCHANGED <<cfgVars, dbVars, sigVars, storage, server, cmdErr, startRet, proc,
                 exitCode, inShutdown, elapsed, req>>

\* the listener goroutine: srv.ListenAndServe()
\*   after Shutdown: returns http.ErrServerClosed, which is not fatal
\*   the address cannot be bound: logrus.Fatalf, that is os.Exit(1)
\*   otherwise the listener is open and Serve accepts connections
ListenAndServe ==
  /\ proc = "running"
  /\ lsnPc = "spawned"
  /\ IF inShutdown
       THEN /\ lsnPc' = "returned"
            /\ UNCHANGED <<proc, exitCode, req>>
       ELSE IF portFree
         THEN /\ lsnPc' = "serving"
              /\ UNCHANGED <<proc, exitCode, req>>
         ELSE /\ lsnPc' = "returned"
              /\ Exit(1)
  /\ UNCHANGED <<cfgVars, dbVars, mainVars, sigVars, inShutdown, elapsed>>

\* srv.Close in place of srv.Shutdown: closes the connections under their
\* handlers
CloseConns(rq) ==
  [r \in Reqs |-> IF rq[r].st = "running" THEN [rq[r] EXCEPT !.st = "aborted"] ELSE rq[r]]

\* what srv.Shutdown does to the connections that are serving a request:
\* nothing, it waits for them
ShutdownConns(rq) == rq

\* Start that does not wait for stop before it shuts the server down
ShutdownBeginNoWait ==
  /\ proc = "running"
  /\ pcMain = "waitStop"
  /\ pcMain' = "Shutdown"
  /\ inShutdown' = TRUE
  /\ elapsed' = 0
  /\ lsnPc' = IF lsnPc = "serving" THEN "returned" ELSE lsnPc
  /\ req' = ShutdownConns(req)
  /\ UNCHANGED <<cfgVars, dbVars, sigVars, storage, server, cmdErr, startRet, proc, exitCode>>

\* <-stop returned; ctx := WithTimeout(Background, defaultStopTimeout);
\* srv.Shutdown(ctx) sets inShutdown and closes the listener (Serve returns
\* ErrServerClosed to the listener goroutine, which then ends)
ShutdownBegin ==
  /\ proc = "running"
  /\ pcMain = "waitStop"
  /\ stopper = "closed"
  /\ pcMain' = "Shutdown"
  /\ inShutdown' = TRUE
  /\ elapsed' = 0
  /\ lsnPc' = IF lsnPc = "serving" THEN "returned" ELSE lsnPc
  /\ req' = ShutdownConns(req)
  /\ UNCHANGED <<cfgVars, dbVars, sigVars, storage, server, cmdErr, startRet, proc, exitCode>>

\* time passes while Shutdown waits for a connection to finish its request
Tick ==
  /\ proc = "running"
  /\ pcMain = "Shutdown"
  /\ ActiveReqs # {}
  /\ elapsed < defaultStopTimeout
  /\ elapsed' = IF elapsed + TickSeconds > defaultStopTimeout
                  THEN defaultStopTimeout ELSE elapsed + TickSeconds
  /\ UNCHANGED <<cfgVars, dbVars, mainVars, sigVars, lsnPc, inShutdown, proc, exitCode, req>>

\* Shutdown finds no connection serving a request: returns nil
ShutdownReturnNil ==
  /\ proc = "running"
  /\ pcMain = "Shutdown"
  /\ ActiveReqs = {}
  /\ pcMain' = "main"
  /\ startRet' = Nil
  /\ cmdErr' = Nil
  /\ UNCHANGED <<cfgVars, dbVars, sigVars, srvVars, storage, server, proc, exitCode, req>>

\* Shutdown under a context without deadline never gives up
ShutdownNoDeadline == FALSE

\* Start that calls srv.Close() when the deadline expires
ShutdownDeadlineCloses ==
  /\ proc = "running"
  /\ pcMain = "Shutdown"
  /\ ActiveReqs # {}
  /\ elapsed >= defaultStopTimeout
  /\ pcMain' = "main"
  /\ startRet' = DeadlineExceeded
  /\ cmdErr' = DeadlineExceeded
  /\ req' = CloseConns(req)
  /\ UNCHANGED <<cfgVars, dbVars, sigVars, srvVars, storage, server, proc, exitCode>>

\* ctx expires with connections still serving: Shutdown returns ctx.Err()
\* and leaves them as they are

ShutdownDeadline ==
  /\ proc = "running"
  /\ pcMain = "Shutdown"
  /\ ActiveReqs # {}
  /\ elapsed >= defaultStopTimeout
  /\ pcMain' = "main"
  /\ startRet' = DeadlineExceeded
  /\ cmdErr' = DeadlineExceeded
  /\ UNCHANGED <<cfgVars, dbVars, sigVars, srvVars, storage, server, proc, exitCode, req>>

\* main that returns without regard to the error of app().Run: exit code 0
MainExitZero ==
  /\ proc = "running"
  /\ pcMain = "main"
  /\ pcMain' = "exited"
  /\ Exit(0)
  /\ UNCHANGED <<cfgVars, dbVars, sigVars, srvVars, storage, server, cmdErr, startRet>>

\* main that ends every run through logrus Fatal: exit code 1
MainExitFatal ==
  /\ proc = "running"
  /\ pcMain = "main"
  /\ pcMain' = "exited"
  /\ Exit(1)
  /\ UNCHANGED <<cfgVars, dbVars, sigVars, srvVars, storage, server, cmdErr, startRet>>

\* ----------------------------------------------------------- main.go 20-24
\* app().Run returned: logrus Fatal (os.Exit(1)) on an error, else main
\* returns and the process exits 0
MainExit ==
  /\ proc = "running"
  /\ pcMain = "main"
  /\ pcMain' = "exited"
  /\ Exit(IF cmdErr # Nil THEN 1 ELSE 0)
  /\ UNCHANGED <<cfgVars, dbVars, sigVars, srvVars, storage, server, cmdErr, startRet>>

\* ----------------------------------------------------------------- storage
\* an identifier default that is not random: every row gets the same value
GenRandomUUIDConst(rows) == "uuid-1"

\* public.gen_random_uuid(): a value no row of the table has
GenRandomUUID(rows) == "uuid-" \o ToString(Len(rows) + 1)

\* ScanItem: row.Scan(&i.ID, &i.Name)
ScanItem(row) == [ID |-> row.id, Name |-> row.name]

\* INSERT INTO items(name) VALUES($1) RETURNING id, name: column name is
\* NOT NULL, and a Go string is never NULL
InsertRow(rows, name) == [id |-> GenRandomUUID(rows), name |-> name]

\* CreateItem as an upsert that keeps one row: the new row replaces the last
CreateItemReplaces(rows, name, dbOk) ==
  IF dbOk
    THEN LET row == [id |-> "uuid-" \o ToString(Len(rows) + 1), name |-> name] IN
           [rows |-> IF rows = <<>> THEN <<row>> ELSE [rows EXCEPT ![Len(rows)] = row],
            item |-> [ID |-> row.id, Name |-> row.name], err |-> Nil]
    ELSE [rows |-> rows, item |-> [ID |-> "", Name |-> ""], err |-> ErrInsert]

\* Storage.CreateItem; dbOk is whether the statement ran
CreateItem(rows, name, dbOk) ==
  IF dbOk
    THEN LET row == InsertRow(rows, name) IN
           [rows |-> Append(rows, row), item |-> ScanItem(row), err |-> Nil]
    ELSE [rows |-> rows, item |-> NoItem, err |-> ErrInsert]

\* what can go wrong in a SELECT: nothing; the query itself; the Scan of row
\* at; rows.Next() ending the iteration with an error in place of row at
Faults(rows) ==
  {NoFault, [kind |-> "query", at |-> 0]}
    \cup {[kind |-> k, at |-> i] : k \in {"scan", "next"}, i \in 1..Len(rows)}
    \cup {[kind |-> "next", at |-> Len(rows) + 1]}

\* the loop of Storage.ListItems from row i on; open is the number of
\* cursors open on return (defer rows.Close() runs on every return)
RECURSIVE ListLoop(_, _, _, _)
ListLoop(rows, i, acc, fault) ==
  IF i > Len(rows) \/ (fault.kind = "next" /\ fault.at = i)
    THEN [items |-> acc, err |-> Nil, open |-> 0]
    ELSE IF fault.kind = "scan" /\ fault.at = i
      THEN [items |-> <<>>, err |-> ErrScan, open |-> 0]
      ELSE ListLoop(rows, i + 1, Append(acc, ScanItem(rows[i])), fault)

\* ListItems that closes rows after the loop only, not by defer: an early
\* return leaves the cursor open
ListItemsLeaks(rows, fault) ==
  IF fault.kind = "query"
    THEN [items |-> <<>>, err |-> ErrQuery, open |-> 0]
    ELSE LET l == ListLoop(rows, 1, <<>>, fault) IN
           IF l.err # Nil THEN [l EXCEPT !.open = 1] ELSE l

\* ListItems that reports a result without rows as an error
ListItemsNoRowsErr(rows, fault) ==
  IF fault.kind = "query" \/ Len(rows) = 0
    THEN [items |-> <<>>, err |-> ErrQuery, open |-> 0]
    ELSE ListLoop(rows, 1, <<>>, fault)

\* Storage.ListItems
ListItems(rows, fault) ==
  IF fault.kind = "query"
    THEN [items |-> <<>>, err |-> ErrQuery, open |-> 0]
    ELSE ListLoop(rows, 1, <<>>, fault)

\* ------------------------------------------------------------------ writer
\* http.ResponseWriter.WriteHeader: only the first call sets the status
WriteHeader(w, code) ==
  IF w.wroteHeader THEN w ELSE [w EXCEPT !.wroteHeader = TRUE, !.status = code]

\* http.ResponseWriter.Write: sends the header with 200 if none was written;
\* ok is whether the connection took the bytes
Write(w, b, ok) ==
  LET w1 == WriteHeader(w, StatusOK) IN
    [w |-> IF ok THEN [w1 EXCEPT !.body = @ \o b] ELSE w1,
     err |-> IF ok THEN Nil ELSE ErrWrite]

\* the server finishes the response when the handler returns
FinishRequest(w) == WriteHeader(w, StatusOK)

\* ---------------------------------------------------------------- handlers
\* the outcomes of a response's n calls of Write, in order: TRUE when the
\* connection took the bytes; a connection that broke stays broken
WriteOutcomes(n) == {[i \in 1..n |-> i <= brk] : brk \in 0..n}

\* req.PostFormValue("name")
PostFormValue(form) == IF form = <<>> THEN "" ELSE form[1]

\* APIServer.createItem after the storage call
createItem(w, res, oks) ==
  IF res.err # Nil
    THEN [w |-> w, err |-> res.err, writes |-> 0]
    ELSE LET w1 == WriteHeader(w, StatusCreated)
             r == Write(w1, "New Item ID: " \o res.item.ID, oks[1])
         IN [w |-> r.w, err |-> r.err, writes |-> 1]

\* the loop of APIServer.listItems from item i on: Write's error is dropped
RECURSIVE WriteItems(_, _, _, _)
WriteItems(w, its, i, oks) ==
  IF i > Len(its)
    THEN w
    ELSE WriteItems(Write(w, its[i].ID \o " - " \o its[i].Name \o "\n", oks[i]).w,
                    its, i + 1, oks)

\* APIServer.listItems after the storage call
listItems(w, res, oks) ==
  IF res.err # Nil
    THEN [w |-> w, err |-> res.err, writes |-> 0]
    ELSE [w |-> WriteItems(w, res.items, 1, oks), err |-> Nil,
          writes |-> Len(res.items)]

\* Endpoint.ServeHTTP around a handler that returned h
ServeHTTP(h, oks) ==
  IF h.err # Nil
    THEN Write(WriteHeader(h.w, StatusInternalServerError),
               "internal server error", oks[h.writes + 1]).w
    ELSE h.w

\* APIServer.defaultRoute
defaultRoute(w, oks) ==
  Write(WriteHeader(w, StatusOK), "Hello World", oks[1]).w

\* ---------------------------------------------------------------- requests
\* Serve accepts a connection and starts the handler goroutine of its request
Accept(r) ==
  /\ proc = "running"
  /\ lsnPc = "serving"
  /\ req[r].st = "none"
  /\ \A q \in Reqs : q < r => req[q].st # "none"
  /\ \E rt \in Routes, f \in Forms :
       /\ rt # "POST /items" => f = <<>>
       /\ req' = [req EXCEPT ![r] = [NoReq EXCEPT !.st = "running", !.route = rt,
                                                  !.form = f]]
  /\ UNCHANGED <<cfgVars, dbVars, mainVars, sigVars, srvVars, proc, exitCode>>

\* GET / : router.HandleFunc("/", s.defaultRoute)
ServeDefaultRoute(r) ==
  /\ proc = "running"
  /\ req[r].st = "running"
  /\ req[r].route = "GET /"
  /\ \E oks \in WriteOutcomes(1) :
       req' = [req EXCEPT ![r] = [@ EXCEPT !.st = "done",
                 !.w = FinishRequest(defaultRoute(req[r].w, oks))]]
  /\ UNCHANGED <<cfgVars, dbVars, mainVars, sigVars, srvVars, proc, exitCode>>

\* POST /items, the handler's storage call: item, err := s.storage.CreateItem(
\* req.Context(), storage.CreateItemRequest{Name: req.PostFormValue("name")}),
\* one INSERT statement; the handlers of concurrent requests interleave
\* around it
CreateItemCall(r) ==
  /\ proc = "running"
  /\ req[r].st = "running"
  /\ req[r].route = "POST /items"
  /\ req[r].res = NoResult
  /\ \E dbOk \in BOOLEAN :
       LET c == CreateItem(items, PostFormValue(req[r].form), dbOk)
           res == [NoResult EXCEPT !.item = c.item, !.err = c.err,
                     !.fault = IF dbOk THEN "none" ELSE "insert"]
       IN /\ items' = c.rows
          /\ req' = [req EXCEPT ![r] = [@ EXCEPT !.res = res]]
  /\ UNCHANGED <<cfgVars, mainVars, sigVars, srvVars, proc, exitCode, cursors>>

\* POST /items : Endpoint{s.createItem}, from the return of the storage call
\* to the end of the response
ServeCreateItem(r) ==
  /\ proc = "running"
  /\ req[r].st = "running"
  /\ req[r].route = "POST /items"
  /\ req[r].res # NoResult
  /\ \E oks \in WriteOutcomes(2) :
       LET h == createItem(req[r].w, req[r].res, oks)
       IN req' = [req EXCEPT ![r] = [@ EXCEPT !.st = "done", !.herr = h.err,
                    !.w = FinishRequest(ServeHTTP(h, oks))]]
  /\ UNCHANGED <<cfgVars, dbVars, mainVars, sigVars, srvVars, proc, exitCode>>

\* GET /items : Endpoint{s.listItems}
ServeListItems(r) ==
  /\ proc = "running"
  /\ req[r].st = "running"
  /\ req[r].route = "GET /items"
  /\ \E fault \in Faults(items), oks \in WriteOutcomes(Len(items) + 1) :
       LET l == ListItems(items, fault)
           res == [NoResult EXCEPT !.items = l.items, !.err = l.err, !.fault = fault.kind]
           h == listItems(req[r].w, res, oks)
       IN /\ cursors' = cursors + l.open
          /\ req' = [req EXCEPT ![r] = [@ EXCEPT !.st = "done", !.res = res,
                       !.herr = h.err,
                       !.w = FinishRequest(ServeHTTP(h, oks))]]
  /\ UNCHANGED <<cfgVars, mainVars, sigVars, srvVars, proc, exitCode, items>>

Next ==
  \/ Signal
  \/ SigRecv
  \/ SigClose
  \/ MainNewStorage
  \/ MainNewAPIServer
  \/ StartSpawn
  \/ ListenAndServe
  \/ ShutdownBegin
  \/ Tick
  \/ ShutdownReturnNil
  \/ ShutdownDeadline
  \/ MainExit
  \/ \E r \in Reqs : Accept(r)
  \/ \E r \in Reqs : ServeDefaultRoute(r)
  \/ \E r \in Reqs : CreateItemCall(r)
  \/ \E r \in Reqs : ServeCreateItem(r)
  \/ \E r \in Reqs : ServeListItems(r)

Spec == Init /\ [][Next]_vars

\* the goroutines of the process are scheduled and time passes; nothing
\* obliges a signal, a connection or a handler's return
Main ==
  \/ MainNewStorage
  \/ MainNewAPIServer
  \/ StartSpawn
  \/ ShutdownBegin
  \/ ShutdownReturnNil
  \/ ShutdownDeadline
  \/ MainExit

Fairness ==
  /\ WF_vars(Main)
  /\ WF_vars(SigRecv)
  /\ WF_vars(SigClose)
  /\ WF_vars(ListenAndServe)
  /\ WF_vars(Tick)

FairSpec == Spec /\ Fairness

\* ------------------------------------------------------------------ claims
Range(f) == {f[i] : i \in DOMAIN f}

Served(r) == req[r].st = "done"

\* the lifecycle state of the server wrapper
Phase ==
  IF server = "nil" THEN "none"
  ELSE IF startRet # "none" THEN "stopped"
  ELSE IF inShutdown THEN "draining"
  ELSE IF lsnPc = "serving" THEN "listening"
  ELSE "constructed"

StrictEdges ==
  {<<"none", "constructed">>, <<"constructed", "listening">>,
   <<"listening", "draining">>, <<"draining", "stopped">>}

\* C1: whatever the number of signals and whenever they arrive, stopper is
\* closed exactly once: the first signal is never dropped (it is in done
\* until the signal goroutine takes it), the goroutine closes stopper once
\* and ends, and no later signal closes it again or panics the process.
C1_StopperClosedOnce ==
  /\ ~panicked
  /\ exitCode # 2
  /\ closeCount <= 1
  /\ (stopper = "closed") <=> (closeCount = 1)
  /\ sigPc = "exit" => closeCount = 1
  /\ closeCount = 1 => signals >= 1
  /\ (signals >= 1 /\ sigPc = "recv") => done = 1

\* C1 witness: more signals than one arrived, stopper was closed once, the
\* goroutine has ended and a later signal sits in done, the process running
C1_Witness ==
  /\ signals >= 2
  /\ closeCount = 1
  /\ sigPc = "exit"
  /\ done = 1
  /\ proc = "running"

\* C2 as claimed: the lifecycle only moves constructed -> listening ->
\* draining -> stopped, one step at a time, never skipping a state.
C2_LifecycleStrict ==
  [][Phase' = Phase \/ <<Phase, Phase'>> \in StrictEdges]_vars

\* C2 amended: the lifecycle never goes back and never skips draining;
\* listening is skipped (constructed -> draining) exactly when Shutdown
\* begins before the listener goroutine has called ListenAndServe; draining
\* is entered only once stopper is closed, stopped only from draining.
C2_Lifecycle ==
  [][/\ \/ Phase' = Phase
        \/ <<Phase, Phase'>> \in StrictEdges
        \/ <<Phase, Phase'>> = <<"constructed", "draining">> /\ lsnPc = "spawned"
     /\ (Phase' = "draining" /\ Phase # "draining") => stopper = "closed"
     /\ (Phase' = "stopped" /\ Phase # "stopped") => Phase = "draining"]_vars

\* C2 witness: Shutdown has begun while the listener goroutine has not yet
\* called ListenAndServe: draining without having listened
C2_Witness ==
  /\ Phase = "draining"
  /\ lsnPc = "spawned"
  /\ stopper = "closed"

\* C3: where the listen address can be bound (a failed ListenAndServe ends
\* the process through logrus.Fatalf), once stopper is closed a called Start
\* eventually returns; it returns nil exactly when no connection is serving
\* a request at that moment, and the deadline error exactly when the
\* deadline has expired with a connection still serving; Shutdown never
\* waits past the deadline.
C3_StartReturns ==
  /\ [][(startRet = "none" /\ startRet' # "none") =>
          /\ startRet' \in {Nil, DeadlineExceeded}
          /\ (startRet' = Nil) <=> (ActiveReqs = {})
          /\ (startRet' = DeadlineExceeded) <=>
               (ActiveReqs # {} /\ elapsed = defaultStopTimeout)]_vars
  /\ [](elapsed <= defaultStopTimeout)
  /\ (portFree /\ stopper = "closed" /\ pcMain \in {"waitStop", "Shutdown"})
       ~> (startRet # "none")

\* C3 witness: Start has returned the deadline error with a connection
\* still serving its request
C3_Witness ==
  /\ startRet = DeadlineExceeded
  /\ ActiveReqs # {}
  /\ elapsed = defaultStopTimeout
  /\ atStop # {}

\* C4: a request in flight when stopper is closed is not cut short by the
\* shutdown: its connection is closed under it only by the exit of the
\* process after the deadline expired, and when it finishes it has its
\* handler's response.
C4_InFlightCompletes ==
  \A r \in Reqs :
    /\ req[r].st = "aborted" => (startRet = DeadlineExceeded /\ proc = "exited")
    /\ (r \in atStop /\ proc = "running" /\ startRet # DeadlineExceeded) =>
         req[r].st \in {"running", "done"}
    /\ (r \in atStop /\ Served(r)) =>
         /\ req[r].w.wroteHeader
         /\ req[r].w.status \in {StatusOK, StatusCreated, StatusInternalServerError}

\* C4 witness: Shutdown waited (time passed) for requests that were all in
\* flight when stopper was closed, they all finished with a response body,
\* and Start returned nil
C4_Witness ==
  /\ startRet = Nil
  /\ elapsed > 0
  /\ atStop # {}
  /\ \A r \in Reqs : req[r].st # "none" =>
       (r \in atStop /\ Served(r) /\ req[r].w.body # "")

\* C5 as claimed: once Start has returned because the deadline expired, no
\* connection is open and no handler is running.
C5_DeadlineClosesConns ==
  startRet = DeadlineExceeded => ActiveReqs = {}

\* C5 amended: Shutdown's deadline closes nothing: while the process runs no
\* connection is ever closed under its handler, and Start returns the
\* deadline error with the connections still serving; it is the exit of the
\* process (main's logrus Fatal on that error, exit code 1) that closes
\* them, and after it none is open and no handler runs.
C5_ExitClosesConns ==
  /\ [](proc = "running" => \A r \in Reqs : req[r].st # "aborted")
  /\ [][(startRet = "none" /\ startRet' = DeadlineExceeded) =>
          (ActiveReqs # {} /\ req' = req /\ proc' = "running")]_vars
  /\ [](proc = "exited" => ActiveReqs = {})
  /\ []((proc = "exited" /\ startRet = DeadlineExceeded) => exitCode = 1)

\* C5 witness: the process has exited after the deadline expired and a
\* connection was closed under its handler
C5_Witness ==
  /\ proc = "exited"
  /\ startRet = DeadlineExceeded
  /\ \E r \in Reqs : req[r].st = "aborted"

\* C6: NewAPIServer with an empty address returns no server and the error
\* "addr cannot be blank"; with a non-empty address it returns the server
\* and no error; neither binds: the listener goroutine exists only once
\* Start has run.
C6_NewAPIServer ==
  /\ (pcMain = "main" /\ storage = "conn" /\ startRet = "none") =>
       (addr = "" /\ server = "nil" /\ cmdErr = ErrAddrBlank)
  /\ (pcMain \in {"Start", "waitStop", "Shutdown"} \/ startRet # "none") =>
       (addr # "" /\ server = addr /\ (startRet = "none" => cmdErr = Nil))
  /\ addr = "" => (lsnPc = "notStarted" /\ server = "nil")
  /\ pcMain \in {"NewStorage", "NewAPIServer", "Start"} => lsnPc = "notStarted"

\* C6 witness: NewAPIServer has refused the empty address
C6_Witness ==
  /\ addr = ""
  /\ pcMain = "main"
  /\ storage = "conn"
  /\ cmdErr = ErrAddrBlank
  /\ lsnPc = "notStarted"

\* a POST /items whose CreateItem succeeded with a non-empty name
Created(p) ==
  /\ Served(p)
  /\ req[p].route = "POST /items"
  /\ req[p].res.err = Nil
  /\ PostFormValue(req[p].form) # ""

\* C7 as claimed: a ListItems that returns no error after a successful
\* CreateItem(name), name non-empty, returns a sequence holding the item
\* CreateItem returned (its non-empty identifier, that name).
C7_CreateThenList ==
  [][\A g \in Reqs :
       (/\ req[g].st = "running"
        /\ req'[g].st = "done"
        /\ req[g].route = "GET /items"
        /\ req'[g].res.err = Nil) =>
         \A p \in Reqs : Created(p) =>
           /\ req[p].res.item.ID # ""
           /\ req[p].res.item \in Range(req'[g].res.items)]_vars

\* C8: ListItems on a table without rows, its query not failing, returns an
\* empty sequence and no error, and GET /items answers 200 with an empty
\* body.
C8_ListEmpty ==
  [][\A g \in Reqs :
       (/\ req[g].st = "running"
        /\ req'[g].st = "done"
        /\ req[g].route = "GET /items"
        /\ items = <<>>
        /\ req'[g].res.fault # "query") =>
         /\ req'[g].res.err = Nil
         /\ req'[g].res.items = <<>>
         /\ req'[g].herr = Nil
         /\ req'[g].w.status = StatusOK
         /\ req'[g].w.body = ""]_vars

\* C8 witness: a GET /items was served from the empty table
C8_Witness ==
  /\ items = <<>>
  /\ \E g \in Reqs :
       /\ Served(g)
       /\ req[g].route = "GET /items"
       /\ req[g].res.fault # "query"
       /\ req[g].w.status = StatusOK
       /\ req[g].w.body = ""

\* C9 as claimed: a served POST /items has one of two outcomes: its row was
\* inserted, the handler reported no error and the response is 201 with
\* "New Item ID: {id}"; or no row was inserted and the response is 500 with
\* "internal server error" (or with no body, where the connection did not
\* take the dispatcher's write).
C9_PostOutcome ==
  \A r \in Reqs : (Served(r) /\ req[r].route = "POST /items") =>
    \/ /\ req[r].res.err = Nil
       /\ req[r].herr = Nil
       /\ req[r].w.status = StatusCreated
       /\ req[r].w.body = "New Item ID: " \o req[r].res.item.ID
       /\ \E i \in DOMAIN items : ScanItem(items[i]) = req[r].res.item
    \/ /\ req[r].res.err # Nil
       /\ req[r].w.status = StatusInternalServerError
       /\ req[r].w.body \in {"internal server error", ""}

\* C10 as claimed: under Endpoint, a handler that returned an error leaves a
\* response with status 500 and no byte of its own (the body is the generic
\* text, or empty where the connection did not take the dispatcher's
\* write); a handler that returned no error leaves a response without the
\* dispatcher's 500; every served request has a status.
C10_Dispatcher ==
  \A r \in Reqs : (Served(r) /\ req[r].route \in {"POST /items", "GET /items"}) =>
    /\ req[r].w.wroteHeader
    /\ req[r].herr # Nil =>
         /\ req[r].w.status = StatusInternalServerError
         /\ req[r].w.body \in {"internal server error", ""}
    /\ req[r].herr = Nil => req[r].w.status # StatusInternalServerError

\* the items of all rows of the table, in order
AllItems(rows) == [i \in 1..Len(rows) |-> ScanItem(rows[i])]

\* the lines "{id} - {name}" of the first n items of its, one after another
RECURSIVE LinesUpTo(_, _)
LinesUpTo(its, n) ==
  IF n = 0
    THEN ""
    ELSE LinesUpTo(its, n - 1) \o its[n].ID \o " - " \o its[n].Name \o "\n"

\* the step in which the handler of request g returns and its response ends
Serves(g, rt) ==
  /\ req[g].st = "running"
  /\ req'[g].st = "done"
  /\ req[g].route = rt

\* C11 as claimed: GET /items answers 200 with one line "{id} - {name}" for
\* each item in the store, none missing and none repeated, when ListItems
\* returns no error (a connection that broke took only the first lines of
\* what ListItems returned), and answers 500 with "internal server error"
\* and no item line when ListItems returns an error.
C11_GetItems ==
  [][\A g \in Reqs : Serves(g, "GET /items") =>
       /\ req'[g].res.err = Nil =>
            /\ req'[g].w.status = StatusOK
            /\ \/ req'[g].w.body = LinesUpTo(AllItems(items), Len(items))
               \/ \E k \in 0..(Len(req'[g].res.items) - 1) :
                    req'[g].w.body = LinesUpTo(req'[g].res.items, k)
       /\ req'[g].res.err # Nil =>
            /\ req'[g].w.status = StatusInternalServerError
            /\ req'[g].w.body \in {"internal server error", ""}]_vars

\* a constructor has failed: the Action returned its error without calling
\* Start
ConstructionFailed == cmdErr \in {ErrOpenSql, ErrAddrBlank}

\* C12: when NewStorage or NewAPIServer fails, the process exits with code 1
\* and the constructor's error as the logged cause; no constructor runs
\* again, Start is never called, the listener goroutine never exists and no
\* connection is ever accepted.
C12_ConstructionFailure ==
  /\ [](ConstructionFailed =>
          /\ pcMain \in {"main", "exited"}
          /\ startRet = "none"
          /\ server = "nil"
          /\ lsnPc = "notStarted"
          /\ ~inShutdown
          /\ \A r \in Reqs : req[r].st = "none"
          /\ proc = "exited" => exitCode = 1)
  /\ [][ConstructionFailed =>
          /\ ConstructionFailed'
          /\ cmdErr' = cmdErr
          /\ storage' = storage
          /\ server' = server
          /\ pcMain' \in {"main", "exited"}]_vars
  /\ [](cmdErr = ErrOpenSql <=>
          (databaseURL # ValidDatabaseURL /\ pcMain \in {"main", "exited"}))
  /\ [](cmdErr = ErrAddrBlank <=>
          (databaseURL = ValidDatabaseURL /\ addr = ""
             /\ pcMain \in {"main", "exited"}))
  /\ (ConstructionFailed ~> (proc = "exited" /\ exitCode = 1))

\* C12 witness: NewStorage failed and the process has exited with code 1,
\* its error the cause, a termination signal taken on the way
C12_Witness ==
  /\ proc = "exited"
  /\ exitCode = 1
  /\ cmdErr = ErrOpenSql
  /\ storage = "nil"
  /\ lsnPc = "notStarted"
  /\ stopper = "closed"

\* C13: once a termination signal has been delivered the process eventually
\* exits, and it never stays alive once Start has returned: with exit code
\* 0 when Start returned nil, and with the deadline error as the logged
\* cause when the drain deadline was exceeded.
C13_ExitsAfterStop ==
  /\ [](proc = "exited" /\ startRet = Nil => exitCode = 0 /\ cmdErr = Nil)
  /\ [](proc = "exited" /\ startRet = DeadlineExceeded =>
          cmdErr = DeadlineExceeded /\ exitCode # 0)
  /\ [](startRet # "none" => pcMain \in {"main", "exited"})
  /\ (startRet # "none" ~> proc = "exited")
  /\ (signals >= 1 ~> proc = "exited")

\* C13 witness: a graceful shutdown that waited for a request in flight has
\* ended in exit code 0
C13_Witness ==
  /\ proc = "exited"
  /\ exitCode = 0
  /\ startRet = Nil
  /\ stopper = "closed"
  /\ \E r \in Reqs : r \in atStop /\ Served(r)

\* C14: no step of the system changes or removes a row: every row of the
\* store stays where it is with its identifier and its name, the store only
\* grows, by one row and only in the storage call of a POST /items; the
\* handlers of GET / and GET /items, the shutdown and the exit leave the
\* store as it is.
C14_ItemsOnlyGrow ==
  [][/\ Len(items') >= Len(items)
     /\ \A i \in 1..Len(items) : items'[i] = items[i]
     /\ items' # items =>
          /\ Len(items') = Len(items) + 1
          /\ \E r \in Reqs :
               /\ req[r].route = "POST /items"
               /\ req[r].res = NoResult
               /\ req'[r].res.item = ScanItem(items'[Len(items')])
     /\ \A g \in Reqs :
          (Serves(g, "GET /") \/ Serves(g, "GET /items")) => items' = items
     /\ (pcMain' # pcMain \/ proc' # proc \/ inShutdown' # inShutdown
           \/ elapsed' # elapsed \/ stopper' # stopper) => items' = items]_vars

\* C14 witness: an item was created, a later GET /items read it, the server
\* was shut down, and the item is in the store as it was created
C14_Witness ==
  /\ proc = "exited"
  /\ startRet = Nil
  /\ Len(items) = 1
  /\ \E p \in Reqs, g \in Reqs :
       /\ Served(p)
       /\ req[p].route = "POST /items"
       /\ Served(g)
       /\ req[g].route = "GET /items"
       /\ req[g].res.items = <<req[p].res.item>>
       /\ ScanItem(items[1]) = req[p].res.item

\* C15 as claimed: in every reachable state every row of the store has a
\* non-empty identifier and a non-empty name, whatever name field the
\* POST /items requests carried.
C15_ItemsWellFormed ==
  \A i \in 1..Len(items) :
    /\ items[i].id # ""
    /\ items[i].name # ""

\* C16 as claimed: a ListItems that returns no error returns all rows of
\* the store; when the query, a row scan or the row iteration fails it
\* returns an error and no items.
C16_ListAllOrError ==
  [][\A g \in Reqs : Serves(g, "GET /items") =>
       /\ req'[g].res.err = Nil => req'[g].res.items = AllItems(items)
       /\ req'[g].res.fault # "none" =>
            (req'[g].res.err # Nil /\ req'[g].res.items = <<>>)
       /\ req'[g].res.err \in {Nil, ErrQuery, ErrScan}]_vars

\* C17: every ListItems call returns with its cursor closed, whether it
\* read all rows, returned early on a row-scan error, had its iteration cut
\* short, or had its query fail (no cursor opened): no cursor is ever left
\* open.
C17_CursorsReleased ==
  /\ [](cursors = 0)
  /\ [][\A g \in Reqs : Serves(g, "GET /items") =>
          /\ cursors' = cursors
          /\ \A f \in Faults(items) : ListItems(items, f).open = 0]_vars

\* C17 witness: a ListItems call has returned early on a row-scan error and
\* no cursor is open
C17_Witness ==
  /\ cursors = 0
  /\ \E g \in Reqs :
       /\ Served(g)
       /\ req[g].route = "GET /items"
       /\ req[g].res.fault = "scan"
       /\ req[g].res.err = ErrScan
       /\ req[g].w.status = StatusInternalServerError

\* C18: a termination signal is never lost, whenever it arrives: from its
\* delivery on it is in done or the signal goroutine has taken it, and,
\* where the constructors succeed and the address can be bound, it makes
\* Start begin its shutdown and return, also when it was delivered before
\* Start was called or before the listener goroutine listened; once the
\* shutdown has begun the server is not listening and accepts no
\* connection.
C18_SignalNotLost ==
  /\ [](signals >= 1 => (done = 1 \/ sigPc # "recv"))
  /\ ((signals >= 1 /\ portFree /\ addr # "" /\ databaseURL = ValidDatabaseURL)
        ~> (startRet # "none"))
  /\ [](startRet # "none" => (stopper = "closed" /\ inShutdown))
  /\ [](inShutdown => lsnPc # "serving")
  /\ [][inShutdown =>
          \A r \in Reqs : req[r].st = "none" => req'[r].st = "none"]_vars

\* C18 witness: Start has returned although the listener goroutine never
\* got to call ListenAndServe: the signal came before the server listened
C18_Witness ==
  /\ startRet = Nil
  /\ lsnPc = "spawned"
  /\ signals >= 1
  /\ proc = "running"
  /\ \A r \in Reqs : req[r].st = "none"

\* the POST /items requests whose INSERT succeeded
Inserted ==
  {r \in Reqs : req[r].route = "POST /items" /\ req[r].res # NoResult
                  /\ req[r].res.err = Nil}

\* C19: however the handlers of concurrent POST /items requests interleave,
\* the store holds exactly one row for each request whose INSERT succeeded,
\* with that request's name, no two rows and no two requests share an
\* identifier, and the response of each such request, where the connection
\* took it, is 201 with the identifier of the request's own row.
C19_ConcurrentInserts ==
  /\ Len(items) = Cardinality(Inserted)
  /\ \A i \in 1..Len(items), j \in 1..Len(items) :
       i # j => items[i].id # items[j].id
  /\ \A r \in Inserted :
       /\ req[r].res.item.ID # ""
       /\ req[r].res.item.Name = PostFormValue(req[r].form)
       /\ \E i \in 1..Len(items) : ScanItem(items[i]) = req[r].res.item
       /\ \A q \in Inserted : q # r => req[q].res.item.ID # req[r].res.item.ID
       /\ (Served(r) /\ req[r].w.body # "") =>
            /\ req[r].w.status = StatusCreated
            /\ req[r].w.body = "New Item ID: " \o req[r].res.item.ID

\* C19 witness: two POST /items were in flight together: the one accepted
\* second inserted first and is still in its handler, the one accepted
\* first inserted second and has been answered 201 with its own identifier
C19_Witness ==
  /\ Inserted = {1, 2}
  /\ Len(items) = 2
  /\ req[2].res.item.ID = items[1].id
  /\ req[2].st = "running"
  /\ req[1].res.item.ID = items[2].id
  /\ Served(1)
  /\ req[1].w.status = StatusCreated
  /\ req[1].w.body = "New Item ID: " \o items[2].id
  /\ req[1].res.item.Name # req[2].res.item.Name

====
